---------------------------- MODULE Spec2Model ----------------------------
(***************************************************************************)
(* Witness generator for AES cipher modes (src/src/witness.rs,             *)
(* src/src/main.rs).  Bytes are 0..255, byte strings are sequences.        *)
(* The AES block cipher itself (crate `aes`) is an external primitive; it  *)
(* is modelled by a deterministic keyed mixing function on 16-byte blocks. *)
(* The modes built on it (CTR with a 32-bit big-endian counter, GCM,       *)
(* GCM-SIV) are modelled by their constructions.                           *)
(***************************************************************************)
EXTENDS Integers, Sequences, FiniteSets, TLC

(* ------------------------------ bounds -------------------------------- *)
\* longest MESSAGE / test message / keystream buffer that is enumerated
MaxLen == 33
\* largest TLS sequence number that is enumerated
MaxSeq == 2

(* -------------------------- program constants ------------------------- *)
\* AES block: GenericArray<u8, U16>
BLOCK_SIZE == 16
\* AAD = [u8; 5]
AAD_LEN == 5
\* Nonce = [u8; 12]
NONCE_LEN == 12
\* "see tls1.3; 1 byte type, 16b aad"
TAG_LEN == 16
\* range of the two length bytes of the TLS 1.3 additional data
MAX_RECORD_LEN == 65535

(* ------------------------------- bytes -------------------------------- *)
RECURSIVE XorBits(_, _, _)
XorBits(a, b, n) ==
    IF n = 0 THEN 0
    ELSE ((a + b) % 2) + 2 * XorBits(a \div 2, b \div 2, n - 1)

\* a ^ b on u8
Xor(a, b) == XorBits(a, b, 8)

\* a byte string as an explicit tuple (every element evaluated once)
Bytes(s) == SubSeq(s, 1, Len(s))

Zeros(n) == Bytes([i \in 1..n |-> 0])

Take(s, n) == SubSeq(s, 1, n)

RECURSIVE SumRange(_, _, _)
\* sum of i * s[i] over lo..hi, by halving (the depth stays logarithmic)
SumRange(s, lo, hi) ==
    IF lo > hi THEN 0
    ELSE IF lo = hi THEN ((lo % 251) * s[lo]) % 65521
    ELSE LET mid == (lo + hi) \div 2
         IN  (SumRange(s, lo, mid) + SumRange(s, mid + 1, hi)) % 65521

Mix(s) == (SumRange(s, 1, Len(s)) + 257 * Len(s)) % 65521

(* ----------------------- the AES block primitive ---------------------- *)
\* Aes128 / Aes256 encrypt_block: one 16-byte block under a 16- or 32-byte key
AesRounds(k, b, blk) ==
    Bytes([i \in 1..BLOCK_SIZE |-> (k + 5 * b + 17 * i + 3 * blk[i]) % 256])

AesEncryptBlock(key, blk) == AesRounds(Mix(key), Mix(blk), blk)

(* ------------------- CTR with a 32-bit big-endian counter ------------- *)
\* Ctr32BE: the last four bytes of the 16-byte block are a big-endian u32
\* counter; block n of the keystream uses counter + n (wrapping)
CtrBlock(iv, n) ==
    LET s4 == iv[16] + (n % 256)
        s3 == iv[15] + ((n \div 256) % 256) + (s4 \div 256)
        s2 == iv[14] + ((n \div 65536) % 256) + (s3 \div 256)
        s1 == iv[13] + ((n \div 16777216) % 256) + (s2 \div 256)
    IN  Bytes([i \in 1..BLOCK_SIZE |->
                  IF i <= 12 THEN iv[i]
                  ELSE IF i = 13 THEN s1 % 256
                  ELSE IF i = 14 THEN s2 % 256
                  ELSE IF i = 15 THEN s3 % 256
                  ELSE s4 % 256])

\* a counter-mode cipher state: key, initial counter block, blocks produced
CtrInit(key, iv) == [key |-> key, iv |-> iv, pos |-> 0]

\* write_keystream_block: the keystream block at the current counter
KeystreamBlock(c) == AesEncryptBlock(c.key, CtrBlock(c.iv, c.pos))

\* number of 16-byte chunks of a buffer of n bytes (chunks_mut)
NumChunks(n) == (n + BLOCK_SIZE - 1) \div BLOCK_SIZE

\* XOR of a buffer with the keystream that starts at the state's counter;
\* byte i takes byte ((i-1) mod 16) of keystream block (i-1) div 16
\* the next nb keystream blocks of a cipher state
KeystreamBlocks(c, nb) ==
    Bytes([b \in 1..nb |-> AesEncryptBlock(c.key, CtrBlock(c.iv, c.pos + b - 1))])

XorBlocks(buf, blocks) ==
    Bytes([i \in 1..Len(buf) |->
              Xor(buf[i], blocks[((i - 1) \div BLOCK_SIZE) + 1]
                                [((i - 1) % BLOCK_SIZE) + 1])])

KeystreamXor(c, buf) == XorBlocks(buf, KeystreamBlocks(c, NumChunks(Len(buf))))

Advance(c, nblocks) == [c EXCEPT !.pos = c.pos + nblocks]


(* ------------------------------ AES-GCM ------------------------------- *)
\* GHASH stand-in: a keyed checksum of the additional data and the ciphertext
GHashOf(h, a, m, alen) ==
    Bytes([i \in 1..TAG_LEN |-> (h * ((a + 3 * m + i) % 65521) + alen) % 256])

GHash(key, aad, c) ==
    GHashOf(Mix(AesEncryptBlock(key, Zeros(BLOCK_SIZE))) % 256, Mix(aad), Mix(c),
            Len(aad))

\* J0 for a 96-bit nonce: nonce || 00 00 00 01
GcmJ0(nonce) == Bytes([i \in 1..BLOCK_SIZE |->
                          IF i <= NONCE_LEN THEN nonce[i]
                          ELSE IF i = BLOCK_SIZE THEN 1 ELSE 0])

\* the tag: GHASH masked with the keystream block at J0
GcmTag(g, tm) == Bytes([i \in 1..TAG_LEN |-> Xor(g[i], tm[i])])

GcmSeal(key, j0, c, aad) == c \o GcmTag(GHash(key, aad, c), AesEncryptBlock(key, j0))

\* an encryption that zero-pads the message to whole blocks first
GcmEncrypt_padded(key, nonce, msg, aad) ==
    GcmSeal(key, GcmJ0(nonce),
            KeystreamXor([key |-> key, iv |-> GcmJ0(nonce), pos |-> 1],
                         msg \o Zeros(NumChunks(Len(msg)) * BLOCK_SIZE - Len(msg))),
            aad)

\* Aead::encrypt of Aes128Gcm / Aes256Gcm: ciphertext || 16-byte tag.  The tag
\* mask is E(K, J0); the data keystream starts at the next counter value.
GcmEncrypt(key, nonce, msg, aad) ==
    GcmSeal(key, GcmJ0(nonce),
            KeystreamXor([key |-> key, iv |-> GcmJ0(nonce), pos |-> 1], msg), aad)

(* ---------------------------- AES-GCM-SIV ----------------------------- *)
\* Aead::encrypt of Aes256GcmSiv: the tag is computed from (nonce, aad,
\* plaintext) first and then seeds the counter that encrypts the plaintext
GcmSivEncrypt(key, nonce, msg, aad) ==
    LET s   == (Mix(aad) + 7 * Mix(msg) + 11 * Mix(nonce)) % 65521
        pre == Bytes([i \in 1..BLOCK_SIZE |->
                         IF i <= NONCE_LEN THEN Xor(nonce[i], (s + i) % 256)
                         ELSE (s \div 256 + i) % 256])
        tag == AesEncryptBlock(key, pre)
        c   == KeystreamXor([key |-> key, iv |-> tag, pos |-> 0], msg)
    IN  c \o tag

(* --------------------------- utils (TLS 1.3) -------------------------- *)
\* u64::to_be_bytes for the sequence numbers that are enumerated (< 2^31)
U64BE(seq) == [j \in 1..8 |->
                 IF j <= 4 THEN 0 ELSE (seq \div (256 ^ (8 - j))) % 256]

\* make_nonce: the fixed IV with its last 8 bytes XORed with the sequence
make_nonce(fixed_iv, seq) ==
    Bytes([i \in 1..NONCE_LEN |->
              IF i <= 4 THEN fixed_iv[i]
              ELSE Xor(fixed_iv[i], U64BE(seq)[i - 4])])

\* make_tls13_aad: content type, protocol version, big-endian record length
make_tls13_aad(len) ==
    IF len > MAX_RECORD_LEN
    THEN [kind |-> "err", what |-> "LengthOverflow", val |-> <<>>]
    ELSE [kind |-> "ok", what |-> "",
          val |-> <<23, 3, 3, (len \div 256) % 256, len % 256>>]

\* a keystream application that XORs whole blocks, growing a short last chunk
apply_keystream_whole_blocks(c, buf) ==
    [buf |-> KeystreamXor(c, buf \o Zeros(NumChunks(Len(buf)) * BLOCK_SIZE - Len(buf))),
     ctr |-> Advance(c, NumChunks(Len(buf)))]

\* utils::apply_keystream: XOR the buffer in place, one 16-byte chunk per
\* keystream block, a short last chunk taking only as many bytes as it has
apply_keystream(c, buf) ==
    [buf |-> KeystreamXor(c, buf), ctr |-> Advance(c, NumChunks(Len(buf)))]

(* ------------------------------ outcomes ------------------------------ *)
Ok(v) == [kind |-> "ok", what |-> "", val |-> v]
Panic(w) == [kind |-> "panic", what |-> w, val |-> <<>>]
Err(w) == [kind |-> "err", what |-> w, val |-> <<>>]
NoResult == [kind |-> "none", what |-> "", val |-> <<>>]
NoLog == [nonce |-> <<>>, aad |-> NoResult]

\* encrypt_tls driving the cipher with the per-record nonce and the TLS
\* additional data instead of the raw iv and an empty aad
encrypt_tls_with_nonce(message, key, iv, seq) ==
    LET total_len == Len(message) + 1 + TAG_LEN
        aad       == make_tls13_aad(total_len)
    IN  IF Len(iv) < NONCE_LEN
        THEN [out |-> Panic("range end index 12 out of range"), log |-> NoLog]
        ELSE LET fixed_iv == Take(iv, NONCE_LEN)
                 nonce    == make_nonce(fixed_iv, seq)
                 log      == [nonce |-> nonce, aad |-> aad]
             IN  IF Len(key) # BLOCK_SIZE
                 THEN [out |-> Panic("InvalidLength"), log |-> log]
                 ELSE [out |-> Ok(GcmEncrypt(key, nonce, message, aad.val)),
                       log |-> log]

(* ----------------------------- encrypt_tls ---------------------------- *)
\* encrypt_tls(message, key, iv, seq): the value returned (or the panic),
\* and what line 75 prints
encrypt_tls(message, key, iv, seq) ==
    LET total_len == Len(message) + 1 + TAG_LEN
        aad       == make_tls13_aad(total_len)
    IN  IF Len(iv) < NONCE_LEN
        THEN \* iv[..12] on a shorter slice
             [out |-> Panic("range end index 12 out of range"), log |-> NoLog]
        ELSE LET fixed_iv == Take(iv, NONCE_LEN)
                 nonce    == make_nonce(fixed_iv, seq)
                 log      == [nonce |-> nonce, aad |-> aad]
             IN  IF Len(key) # BLOCK_SIZE
                 THEN \* Aes128Gcm::new_from_slice(key).unwrap()
                      [out |-> Panic("InvalidLength"), log |-> log]
                 ELSE IF Len(iv) # NONCE_LEN
                 THEN \* GenericArray::from_slice(iv) asserts the length
                      [out |-> Panic("from_slice: length mismatch"), log |-> log]
                 ELSE [out |-> Ok(GcmEncrypt(key, iv, message, <<>>)),
                       log |-> log]

(* ------------------------------- state -------------------------------- *)
VARIABLES
    consts,       \* the fixed test constants of crate::consts
    cipher_mode,  \* argument of aes_witnesses
    pc,           \* position inside aes_witnesses
    tls_ct,       \* ct of line 94 (shadowed at line 103)
    block,        \* line 100
    block_256,    \* line 101
    tag_mask,     \* tag_mask / tag_mask_256 (lines 112, 146, 167)
    cipher,       \* cipher / cipher_256 of the CTR arms
    ct,           \* result of the match (line 103)
    ctr,          \* ctr of the AES-GCM duplication (line 166)
    buffer,       \* line 170
    ksLog,        \* history: which keystream block went into which buffer
    ret,          \* what aes_witnesses returned
    tls_in,       \* arguments of a direct encrypt_tls call: message length, key, iv
    tls_call,     \* the two calls made on tls_in: sequence number, result, log
    ks,           \* a buffer run through apply_keystream twice
    test          \* tests::test_aes_gcm_blocks*

mainVars == <<consts, cipher_mode, pc, tls_ct, block, block_256, tag_mask,
              cipher, ct, ctr, buffer, ksLog, ret>>
tlsVars  == <<tls_in, tls_call>>
vars     == <<consts, cipher_mode, pc, tls_ct, block, block_256, tag_mask,
              cipher, ct, ctr, buffer, ksLog, ret, tls_in, tls_call, ks, test>>

(* ------------------------ crate::consts (fixed) ----------------------- *)
Fill(n, b) == Bytes([i \in 1..n |-> b])

\* "testhello0000000" repeated, n bytes
TestHello(n) ==
    LET w == <<116, 101, 115, 116, 104, 101, 108, 108, 111,
               48, 48, 48, 48, 48, 48, 48>>
    IN  Bytes([i \in 1..n |-> w[((i - 1) % BLOCK_SIZE) + 1]])

\* One choice of the constants.  Lengths are those the types at their uses
\* force (Aes128 key 16, Aes256 key 32, Ctr32BE iv 16, GCM nonce 12, Block 16);
\* n is the length of MESSAGE and k the byte the 128-bit key is filled with.
Consts(n, k) ==
    [MESSAGE                |-> TestHello(n),
     KEY_ASCII              |-> Fill(BLOCK_SIZE, k),
     IV_ASCII               |-> Fill(NONCE_LEN, 49),
     KEY_BYTES_156          |-> Fill(BLOCK_SIZE, k),
     KEY_BYTES_256          |-> <<k>> \o Zeros(2 * BLOCK_SIZE - 1),
     IV_BYTES               |-> Fill(NONCE_LEN, 49) \o <<0, 0, 0, 1>>,
     IV_BYTES_SHORT         |-> Fill(NONCE_LEN, 49),
     IV_BYTES_256           |-> (<<3>> \o Zeros(NONCE_LEN - 1)) \o <<0, 0, 0, 1>>,
     IV_BYTES_SHORT_256     |-> <<3>> \o Zeros(NONCE_LEN - 1),
     MESSAGE_BYTES          |-> TestHello(BLOCK_SIZE),
     ZERO_MESSAGE_BYTES_256 |-> Zeros(BLOCK_SIZE),
     SIV_AAD                |-> Zeros(BLOCK_SIZE)]

ConstSets == {Consts(n, k) : n \in 0..MaxLen, k \in {49, 50}}

NoConsts == Consts(0, 0)

\* enum CipherMode
CipherMode == {"Vanilla", "Ctr256", "GcmSiv", "GCM256", "Ctr128", "GCM128"}

NoCtr == [key |-> <<>>, iv |-> <<>>, pos |-> 0]

\* Witness::new
Witness_new(key, iv, c, pt) == [key |-> key, iv |-> iv, ct |-> c, pt |-> pt]

\* StreamCipher::apply_keystream of Aes128Ctr32BE / Aes256Ctr32BE
StreamCipher_apply_keystream(c, buf) ==
    [buf |-> KeystreamXor(c, buf), ctr |-> Advance(c, NumChunks(Len(buf)))]

\* a keystream block written from a copy of the state: the counter stays
write_keystream_block_no_advance(c) == [block |-> KeystreamBlock(c), ctr |-> c]

\* StreamCipherCore::write_keystream_block
write_keystream_block(c) == [block |-> KeystreamBlock(c), ctr |-> Advance(c, 1)]

\* history entries for the keystream blocks a call consumes
Used(who, c, n, into) ==
    [j \in 1..NumChunks(n) |-> [who |-> who, pos |-> c.pos + j - 1, into |-> into]]

idleTls  == /\ tls_in = [len |-> 0, key |-> <<>>, iv |-> <<>>]
            /\ tls_call = <<>>
idleKs   == ks = [stage |-> "idle"]
idleTest == test = [pc |-> "idle"]
idleMain == /\ consts = NoConsts /\ cipher_mode = "GCM128" /\ pc = "idle"
            /\ tls_ct = <<>> /\ block = <<>> /\ block_256 = <<>>
            /\ tag_mask = <<>> /\ cipher = NoCtr /\ ct = <<>> /\ ctr = NoCtr
            /\ buffer = <<>> /\ ksLog = <<>> /\ ret = NoResult

(* ---------------------------- aes_witnesses --------------------------- *)
Init ==
    /\ consts \in ConstSets
    /\ cipher_mode \in CipherMode
    /\ pc = "start"
    /\ tls_ct = <<>> /\ block = <<>> /\ block_256 = <<>> /\ tag_mask = <<>>
    /\ cipher = NoCtr /\ ct = <<>> /\ ctr = NoCtr /\ buffer = <<>>
    /\ ksLog = <<>> /\ ret = NoResult
    /\ idleTls /\ idleKs /\ idleTest

\* lines 94-101: the TLS-style encryption of MESSAGE, then the local copies
Start ==
    /\ pc = "start"
    /\ LET r == encrypt_tls(consts.MESSAGE, consts.KEY_ASCII, consts.IV_ASCII, 1).out
       IN  IF r.kind = "ok"
           THEN /\ tls_ct' = r.val
                /\ block' = consts.MESSAGE_BYTES
                /\ block_256' = consts.ZERO_MESSAGE_BYTES_256
                /\ pc' = "match"
                /\ ret' = ret
           ELSE \* .unwrap() / the panic of encrypt_tls
                /\ ret' = Panic(r.what)
                /\ pc' = "done"
                /\ UNCHANGED <<tls_ct, block, block_256>>
    /\ UNCHANGED <<consts, cipher_mode, tag_mask, cipher, ct, ctr, buffer, ksLog,
                   tls_in, tls_call, ks, test>>

\* lines 104-108
Vanilla ==
    /\ pc = "match" /\ cipher_mode = "Vanilla"
    /\ block' = AesEncryptBlock(consts.KEY_BYTES_156, block)
    /\ ct' = block'
    /\ pc' = "dup"
    /\ UNCHANGED <<consts, cipher_mode, tls_ct, block_256, tag_mask, cipher, ctr,
                   buffer, ksLog, ret, tls_in, tls_call, ks, test>>

\* lines 111-112
Ctr256Init ==
    /\ pc = "match" /\ cipher_mode = "Ctr256"
    /\ cipher' = CtrInit(consts.KEY_BYTES_256, consts.IV_BYTES_256)
    /\ tag_mask' = Zeros(BLOCK_SIZE)
    /\ pc' = "ctr256_mask"
    /\ UNCHANGED <<consts, cipher_mode, tls_ct, block, block_256, ct, ctr, buffer,
                   ksLog, ret, tls_in, tls_call, ks, test>>

\* line 114: cipher_256.apply_keystream(&mut tag_mask_256)
Ctr256TagMask ==
    /\ pc = "ctr256_mask"
    /\ LET r == StreamCipher_apply_keystream(cipher, tag_mask)
       IN  /\ tag_mask' = r.buf
           /\ cipher' = r.ctr
    /\ ksLog' = ksLog \o Used("cipher", cipher, Len(tag_mask), "tag_mask")
    /\ pc' = "ctr256_data"
    /\ UNCHANGED <<consts, cipher_mode, tls_ct, block, block_256, ct, ctr, buffer,
                   ret, tls_in, tls_call, ks, test>>

\* lines 115-116: cipher_256.apply_keystream(&mut block_256); block_256.to_vec()
Ctr256Data ==
    /\ pc = "ctr256_data"
    /\ LET r == StreamCipher_apply_keystream(cipher, block_256)
       IN  /\ block_256' = r.buf
           /\ cipher' = r.ctr
    /\ ksLog' = ksLog \o Used("cipher", cipher, Len(block_256), "data")
    /\ ct' = block_256'
    /\ pc' = "dup"
    /\ UNCHANGED <<consts, cipher_mode, tls_ct, block, tag_mask, ctr, buffer,
                   ret, tls_in, tls_call, ks, test>>

\* lines 118-134
GcmSiv ==
    /\ pc = "match" /\ cipher_mode = "GcmSiv"
    /\ ct' = GcmSivEncrypt(consts.KEY_BYTES_256, consts.IV_BYTES_SHORT_256,
                           consts.ZERO_MESSAGE_BYTES_256, consts.SIV_AAD)
    /\ pc' = "dup"
    /\ UNCHANGED <<consts, cipher_mode, tls_ct, block, block_256, tag_mask, cipher,
                   ctr, buffer, ksLog, ret, tls_in, tls_call, ks, test>>

\* lines 135-142
GCM256 ==
    /\ pc = "match" /\ cipher_mode = "GCM256"
    /\ ct' = GcmEncrypt(consts.KEY_BYTES_256, consts.IV_BYTES_SHORT_256,
                        consts.ZERO_MESSAGE_BYTES_256, consts.SIV_AAD)
    /\ pc' = "dup"
    /\ UNCHANGED <<consts, cipher_mode, tls_ct, block, block_256, tag_mask, cipher,
                   ctr, buffer, ksLog, ret, tls_in, tls_call, ks, test>>

\* lines 145-146
Ctr128Init ==
    /\ pc = "match" /\ cipher_mode = "Ctr128"
    /\ cipher' = CtrInit(consts.KEY_BYTES_156, consts.IV_BYTES)
    /\ tag_mask' = Zeros(BLOCK_SIZE)
    /\ pc' = "ctr128_mask"
    /\ UNCHANGED <<consts, cipher_mode, tls_ct, block, block_256, ct, ctr, buffer,
                   ksLog, ret, tls_in, tls_call, ks, test>>

\* the Ctr128 arm without its tag-mask step
Ctr128TagMask_skipped ==
    /\ pc = "ctr128_mask"
    /\ pc' = "ctr128_data"
    /\ UNCHANGED <<consts, cipher_mode, tls_ct, block, block_256, tag_mask, cipher,
                   ct, ctr, buffer, ksLog, ret, tls_in, tls_call, ks, test>>

\* line 147: "In AES-GCM, an empty mask is encrypted first."
Ctr128TagMask ==
    /\ pc = "ctr128_mask"
    /\ LET r == StreamCipher_apply_keystream(cipher, tag_mask)
       IN  /\ tag_mask' = r.buf
           /\ cipher' = r.ctr
    /\ ksLog' = ksLog \o Used("cipher", cipher, Len(tag_mask), "tag_mask")
    /\ pc' = "ctr128_data"
    /\ UNCHANGED <<consts, cipher_mode, tls_ct, block, block_256, ct, ctr, buffer,
                   ret, tls_in, tls_call, ks, test>>

\* lines 148-149: cipher.apply_keystream(&mut block); block.to_vec()
Ctr128Data ==
    /\ pc = "ctr128_data"
    /\ LET r == StreamCipher_apply_keystream(cipher, block)
       IN  /\ block' = r.buf
           /\ cipher' = r.ctr
    /\ ksLog' = ksLog \o Used("cipher", cipher, Len(block), "data")
    /\ ct' = block'
    /\ pc' = "dup"
    /\ UNCHANGED <<consts, cipher_mode, tls_ct, block_256, tag_mask, ctr, buffer,
                   ret, tls_in, tls_call, ks, test>>

\* the placeholder arm falling through with an empty ciphertext
GCM128_empty ==
    /\ pc = "match" /\ cipher_mode = "GCM128"
    /\ ct' = <<>>
    /\ pc' = "dup"
    /\ UNCHANGED <<consts, cipher_mode, tls_ct, block, block_256, tag_mask, cipher,
                   ctr, buffer, ksLog, ret, tls_in, tls_call, ks, test>>

\* the panic message of unimplemented!()
ModeNotImplemented == "not implemented"

\* lines 151-153: unimplemented!()
GCM128 ==
    /\ pc = "match" /\ cipher_mode = "GCM128"
    /\ ret' = Panic(ModeNotImplemented)
    /\ pc' = "done"
    /\ UNCHANGED <<consts, cipher_mode, tls_ct, block, block_256, tag_mask, cipher,
                   ct, ctr, buffer, ksLog, tls_in, tls_call, ks, test>>

\* lines 161-167: counter block iv || 00 00 00 01, a fresh tag mask
DupInit ==
    /\ pc = "dup"
    /\ LET ghash_iv == Bytes([i \in 1..BLOCK_SIZE |->
                                 IF i <= NONCE_LEN THEN consts.IV_BYTES_SHORT[i]
                                 ELSE IF i = BLOCK_SIZE THEN 1 ELSE 0])
       IN  ctr' = CtrInit(consts.KEY_BYTES_156, ghash_iv)
    /\ tag_mask' = Zeros(BLOCK_SIZE)
    /\ pc' = "dup_mask"
    /\ UNCHANGED <<consts, cipher_mode, tls_ct, block, block_256, cipher, ct,
                   buffer, ksLog, ret, tls_in, tls_call, ks, test>>

\* line 169: ctr.write_keystream_block(&mut tag_mask)
DupTagMask ==
    /\ pc = "dup_mask"
    /\ LET r == write_keystream_block(ctr)
       IN  /\ tag_mask' = r.block
           /\ ctr' = r.ctr
    /\ ksLog' = ksLog \o Used("ctr", ctr, BLOCK_SIZE, "tag_mask")
    /\ pc' = "dup_data"
    /\ UNCHANGED <<consts, cipher_mode, tls_ct, block, block_256, cipher, ct,
                   buffer, ret, tls_in, tls_call, ks, test>>

\* lines 170-172: buffer = MESSAGE bytes; apply_keystream(ctr, &mut buffer)
DupData ==
    /\ pc = "dup_data"
    /\ LET r == apply_keystream(ctr, consts.MESSAGE)
       IN  /\ buffer' = r.buf
           /\ ctr' = r.ctr
    /\ ksLog' = ksLog \o Used("ctr", ctr, Len(consts.MESSAGE), "data")
    /\ pc' = "return"
    /\ UNCHANGED <<consts, cipher_mode, tls_ct, block, block_256, tag_mask, cipher,
                   ct, ret, tls_in, tls_call, ks, test>>

\* the record built with the TLS message as its plaintext
Return_pt_message ==
    /\ pc = "return"
    /\ ret' = Ok(Witness_new(consts.KEY_BYTES_156, consts.IV_BYTES_SHORT_256, ct,
                             consts.MESSAGE))
    /\ pc' = "done"
    /\ UNCHANGED <<consts, cipher_mode, tls_ct, block, block_256, tag_mask, cipher,
                   ct, ctr, buffer, ksLog, tls_in, tls_call, ks, test>>

\* line 186
Return ==
    /\ pc = "return"
    /\ ret' = Ok(Witness_new(consts.KEY_BYTES_156, consts.IV_BYTES_SHORT_256, ct,
                             consts.ZERO_MESSAGE_BYTES_256))
    /\ pc' = "done"
    /\ UNCHANGED <<consts, cipher_mode, tls_ct, block, block_256, tag_mask, cipher,
                   ct, ctr, buffer, ksLog, tls_in, tls_call, ks, test>>

Next ==
    \/ Start
    \/ Vanilla
    \/ Ctr256Init \/ Ctr256TagMask \/ Ctr256Data
    \/ GcmSiv
    \/ GCM256
    \/ Ctr128Init \/ Ctr128TagMask \/ Ctr128Data
    \/ GCM128
    \/ DupInit \/ DupTagMask \/ DupData
    \/ Return

Spec == Init /\ [][Next]_vars

(* ------------------- properties of aes_witnesses ---------------------- *)
\* the match of line 103 has produced ct
AfterMatch == pc \in {"dup", "dup_mask", "dup_data", "return"}
                 \/ (pc = "done" /\ ret.kind = "ok")

\* the non-tag portion of an AEAD ciphertext
NonTag(c, n) == Take(c, n)

\* C1: with the first keystream block discarded into the tag mask, the CTR
\* output equals the leading len(plaintext) bytes of the GCM ciphertext for
\* the same key, 12-byte iv and plaintext: Ctr128 against AES-128-GCM, Ctr256
\* against the GCM256 arm's computation, and the manual duplication against
\* the AES-128-GCM ciphertext of encrypt_tls, for every length of MESSAGE.
C1_CrossModeConsistency ==
    /\ (AfterMatch /\ cipher_mode = "Ctr128") =>
          ct = NonTag(GcmEncrypt(consts.KEY_BYTES_156,
                                 Take(consts.IV_BYTES, NONCE_LEN),
                                 consts.MESSAGE_BYTES, <<>>),
                      Len(consts.MESSAGE_BYTES))
    /\ (AfterMatch /\ cipher_mode = "Ctr256") =>
          ct = NonTag(GcmEncrypt(consts.KEY_BYTES_256, consts.IV_BYTES_SHORT_256,
                                 consts.ZERO_MESSAGE_BYTES_256, consts.SIV_AAD),
                      Len(consts.ZERO_MESSAGE_BYTES_256))
    /\ (pc \in {"return", "done"} /\ cipher_mode # "GCM128"
          /\ consts.KEY_ASCII = consts.KEY_BYTES_156
          /\ consts.IV_ASCII = consts.IV_BYTES_SHORT) =>
          /\ Len(tls_ct) = Len(consts.MESSAGE) + TAG_LEN
          /\ buffer = NonTag(tls_ct, Len(consts.MESSAGE))

\* C1 witness: a Ctr256 run whose MESSAGE ends in a partial block has finished,
\* and both keystream applications changed their data
C1_Witness ==
    /\ pc = "done" /\ cipher_mode = "Ctr256" /\ ret.kind = "ok"
    /\ Len(consts.MESSAGE) = 26
    /\ buffer # consts.MESSAGE
    /\ ct # consts.ZERO_MESSAGE_BYTES_256

\* the key, iv and plaintext the selected arm actually used
ModeKey == IF cipher_mode \in {"Vanilla", "Ctr128"}
           THEN consts.KEY_BYTES_156 ELSE consts.KEY_BYTES_256
ModeIv  == CASE cipher_mode = "Ctr128" -> consts.IV_BYTES
             [] cipher_mode = "Ctr256" -> consts.IV_BYTES_256
             [] OTHER -> consts.IV_BYTES_SHORT_256
ModePt  == IF cipher_mode \in {"Vanilla", "Ctr128"}
           THEN consts.MESSAGE_BYTES ELSE consts.ZERO_MESSAGE_BYTES_256

\* C2: the Witness carries the chosen mode's own key (16 bytes for Vanilla,
\* Ctr128, Gcm128; 32 bytes for Ctr256, Gcm256, GcmSiv), the iv that was used
\* (Vanilla has none) and the plaintext that produced ct.
C2_WitnessCarriesModeInputs ==
    ret.kind = "ok" =>
        /\ ret.val.key = ModeKey
        /\ Len(ret.val.key) =
              (IF cipher_mode \in {"Vanilla", "Ctr128", "GCM128"}
               THEN BLOCK_SIZE ELSE 2 * BLOCK_SIZE)
        /\ cipher_mode # "Vanilla" => ret.val.iv = ModeIv
        /\ ret.val.pt = ModePt

C4_ModeNotImplemented ==
    cipher_mode = "GCM128" =>
        /\ ret.kind # "ok"
        /\ ~ AfterMatch
        /\ ct = <<>>
        /\ pc = "done" => ret = Panic(ModeNotImplemented)

\* C4 witness: the GCM128 run has ended
C4_Witness == cipher_mode = "GCM128" /\ pc = "done" /\ ret.kind = "panic"

\* the history entries of one cipher state
LogOf(who) == SelectSeq(ksLog, LAMBDA e : e.who = who)

\* C8: for each counter-mode cipher state the first keystream block (counter
\* at its initial value) goes into the tag mask only, the counter stands
\* exactly one block further when the data step starts, and the data is
\* combined with the blocks at initial value + 1, + 2, ... in order.
C8_DiscardBeforeData ==
    /\ \A w \in {"cipher", "ctr"} :
          LET l == LogOf(w)
          IN  \A i \in 1..Len(l) :
                 /\ l[i].pos = i - 1
                 /\ l[i].into = (IF i = 1 THEN "tag_mask" ELSE "data")
    /\ pc \in {"ctr128_data", "ctr256_data"} =>
          /\ cipher.pos = 1
          /\ Len(LogOf("cipher")) = 1
    /\ pc = "dup_data" => (ctr.pos = 1 /\ buffer = <<>>)
    /\ (AfterMatch /\ cipher_mode = "Ctr128") =>
          ct[1] = Xor(consts.MESSAGE_BYTES[1],
                      AesEncryptBlock(cipher.key, CtrBlock(cipher.iv, 1))[1])
    /\ (AfterMatch /\ cipher_mode = "Ctr256") =>
          ct[1] = Xor(consts.ZERO_MESSAGE_BYTES_256[1],
                      AesEncryptBlock(cipher.key, CtrBlock(cipher.iv, 1))[1])
    /\ (pc \in {"return", "done"} /\ cipher_mode # "GCM128"
          /\ Len(consts.MESSAGE) > 0) =>
          buffer[1] = Xor(consts.MESSAGE[1],
                          AesEncryptBlock(ctr.key, CtrBlock(ctr.iv, 1))[1])

\* C8 witness: a Ctr128 run ended in which the duplication consumed three
\* data blocks after its tag mask
C8_Witness ==
    /\ pc = "done" /\ cipher_mode = "Ctr128" /\ ret.kind = "ok"
    /\ Len(LogOf("cipher")) = 2
    /\ Len(LogOf("ctr")) = 4

(* ------------------ encrypt_tls called on its own --------------------- *)
\* the length of a message whose record is one byte too long for the two
\* length bytes of the additional data
LongLen == MAX_RECORD_LEN - TAG_LEN

\* the message of a call is "testhello0000000" repeated to tls_in.len bytes
TlsMessage == TestHello(tls_in.len)

TlsInputs ==
    [len     : 0..MaxLen,
     key     : {Fill(BLOCK_SIZE, 49), Fill(BLOCK_SIZE, 50), Fill(2 * BLOCK_SIZE, 49)},
     iv      : {Fill(8, 49), Fill(NONCE_LEN, 49), Fill(NONCE_LEN, 50),
                Fill(BLOCK_SIZE, 49)}]

LongTlsInputs ==
    {[len |-> LongLen, key |-> Fill(BLOCK_SIZE, 49), iv |-> Fill(NONCE_LEN, 49)]}

NoCall == [seq |-> 0, res |-> [out |-> NoResult, log |-> NoLog]]

InitTls ==
    /\ tls_in \in TlsInputs
    /\ tls_call = <<NoCall, NoCall>>
    /\ idleMain /\ idleKs /\ idleTest

\* the s-th call encrypt_tls(message, key, iv, seq) on the same message, key
\* and iv, with a sequence number of its own
EncryptTlsCall(s) ==
    /\ tls_call[s].res.out.kind = "none"
    /\ \E seq \in 0..MaxSeq :
          tls_call' = [tls_call EXCEPT ![s] =
                          [seq |-> seq,
                           res |-> encrypt_tls(TlsMessage, tls_in.key,
                                               tls_in.iv, seq)]]
    /\ UNCHANGED <<tls_in, ks, test>>
    /\ UNCHANGED mainVars

NextTls == EncryptTlsCall(1) \/ EncryptTlsCall(2)

SpecTls == InitTls /\ [][NextTls]_vars

\* the same calls, the over-long record among the inputs
InitTlsLong ==
    /\ tls_in \in TlsInputs \cup LongTlsInputs
    /\ tls_call = <<NoCall, NoCall>>
    /\ idleMain /\ idleKs /\ idleTest

SpecTlsLong == InitTlsLong /\ [][NextTls]_vars

Called(s) == tls_call[s].res.out.kind # "none"

\* C5: a source IV longer than 12 bytes is accepted, its first 12 bytes being
\* the fixed IV of the nonce, and one shorter than 12 bytes makes the call
\* fail (InvalidIvLength) without a ciphertext.
C5_IvLengthHandling ==
    \A s \in 1..2 :
        (Called(s) /\ Len(tls_in.key) = BLOCK_SIZE) =>
            /\ Len(tls_in.iv) > NONCE_LEN =>
                  (tls_call[s].res.out.kind = "ok" /\
                   tls_call[s].res.log.nonce =
                       make_nonce(Take(tls_in.iv, NONCE_LEN), tls_call[s].seq))
            /\ Len(tls_in.iv) < NONCE_LEN => tls_call[s].res.out.kind # "ok"

\* C6: a record length above 65535, that is a message longer than 65518
\* bytes, makes encryption fail (LengthOverflow): no ciphertext is returned.
C6_LengthOverflowRejected ==
    \A s \in 1..2 :
        (Called(s) /\ Len(tls_in.key) = BLOCK_SIZE /\ Len(tls_in.iv) = NONCE_LEN
           /\ tls_in.len + 1 + TAG_LEN > MAX_RECORD_LEN) =>
            tls_call[s].res.out.kind # "ok"

\* C10: the result of encrypt_tls does not depend on the sequence number:
\* two calls on the same message, key and iv return the same value.
C10_SeqIndependence ==
    (Called(1) /\ Called(2)) => tls_call[1].res.out = tls_call[2].res.out

\* C10 witness: two calls with different sequence numbers returned a
\* ciphertext each, and the nonces they logged differ
C10_Witness ==
    /\ Called(1) /\ Called(2)
    /\ tls_call[1].seq # tls_call[2].seq
    /\ tls_call[1].res.out.kind = "ok"
    /\ Len(tls_call[1].res.out.val) > TAG_LEN
    /\ tls_call[1].res.log.nonce # tls_call[2].res.log.nonce

(* ------------- apply_keystream applied twice to one buffer ------------ *)
KsInputs ==
    [key  : {Fill(BLOCK_SIZE, 49), Fill(BLOCK_SIZE, 50)},
     iv   : {GcmJ0(Fill(NONCE_LEN, 49)), Fill(NONCE_LEN, 3) \o <<0, 0, 0, 255>>},
     orig : {TestHello(n) : n \in 0..MaxLen} \cup {Zeros(n) : n \in 0..MaxLen}]

InitKs ==
    /\ \E i \in KsInputs :
          ks = [stage |-> "fresh", key |-> i.key, iv |-> i.iv, orig |-> i.orig,
                buf |-> i.orig, mid |-> <<>>, ctr |-> CtrInit(i.key, i.iv)]
    /\ idleMain /\ idleTls /\ idleTest

\* apply_keystream(ctr, &mut buffer) from the freshly initialised state
KsApply ==
    /\ ks.stage = "fresh"
    /\ ks' = [ks EXCEPT !.stage = "once",
                        !.buf = apply_keystream(ks.ctr, ks.buf).buf,
                        !.mid = apply_keystream(ks.ctr, ks.buf).buf,
                        !.ctr = apply_keystream(ks.ctr, ks.buf).ctr]
    /\ UNCHANGED <<tls_in, tls_call, test>>
    /\ UNCHANGED mainVars

\* the state reset to the same key and starting counter, applied again
KsResetApply ==
    /\ ks.stage = "once"
    /\ ks' = [ks EXCEPT !.stage = "twice",
                        !.buf = apply_keystream(CtrInit(ks.key, ks.iv), ks.buf).buf,
                        !.ctr = apply_keystream(CtrInit(ks.key, ks.iv), ks.buf).ctr]
    /\ UNCHANGED <<tls_in, tls_call, test>>
    /\ UNCHANGED mainVars

NextKs == KsApply \/ KsResetApply

SpecKs == InitKs /\ [][NextKs]_vars

\* C7: applying the keystream and applying it again from the reset state
\* returns the original bytes, for empty, whole-block and partial-block
\* buffers; one application XORs byte i with keystream byte i (only the bytes
\* that remain in a short last chunk) and the length never changes.
C7_KeystreamInvolution ==
    ks.stage # "idle" =>
        /\ Len(ks.buf) = Len(ks.orig)
        /\ ks.stage = "twice" => ks.buf = ks.orig
        /\ ks.stage = "once" =>
              /\ ks.ctr.pos = NumChunks(Len(ks.orig))
              /\ \A i \in 1..Len(ks.orig) :
                    ks.buf[i] =
                        Xor(ks.orig[i],
                            AesEncryptBlock(ks.key,
                                CtrBlock(ks.iv, (i - 1) \div BLOCK_SIZE))
                              [((i - 1) % BLOCK_SIZE) + 1])

\* C7 witness: a buffer ending in a partial block was changed by the first
\* application and is back to its original bytes after the second
C7_Witness ==
    /\ ks.stage = "twice"
    /\ Len(ks.orig) = 26
    /\ ks.mid # ks.orig
    /\ ks.buf = ks.orig

(* ------------------- tests::test_aes_gcm_blocks* ---------------------- *)
\* "testhello0000000testhello0000000"
Message_2 == TestHello(2 * BLOCK_SIZE)

\* "testhello0000testhello0000"
Message_1_5 == TestHello(13) \o TestHello(13)

TestMessages ==
    {TestHello(n) : n \in 0..MaxLen} \cup {Zeros(n) : n \in 0..MaxLen}
        \cup {Take(Message_1_5 \o Message_1_5 \o Message_1_5, n) : n \in 0..MaxLen}

InitTests ==
    /\ \E m \in TestMessages :
          test = [pc |-> "ready", test_key |-> Fill(BLOCK_SIZE, 49),
                  test_iv |-> Fill(NONCE_LEN, 49), message |-> m, ct |-> <<>>]
    /\ idleMain /\ idleTls /\ idleKs

\* the body the two tests share: Aes128Gcm, empty aad
TestEncrypt ==
    /\ test' = [test EXCEPT !.pc = "done",
                            !.ct = GcmEncrypt(test.test_key, test.test_iv,
                                              test.message, <<>>)]
    /\ UNCHANGED <<tls_in, tls_call, ks>>
    /\ UNCHANGED mainVars

\* main.rs lines 78-102
test_aes_gcm_blocks ==
    /\ test.pc = "ready" /\ test.message = Message_2
    /\ TestEncrypt

\* main.rs lines 103-129
test_aes_gcm_blocks_1_5 ==
    /\ test.pc = "ready" /\ test.message = Message_1_5
    /\ TestEncrypt

\* the same body on a message of another length
test_aes_gcm_other ==
    /\ test.pc = "ready" /\ test.message \notin {Message_2, Message_1_5}
    /\ TestEncrypt

NextTests == test_aes_gcm_blocks \/ test_aes_gcm_blocks_1_5 \/ test_aes_gcm_other

SpecTests == InitTests /\ [][NextTests]_vars

=============================================================================
